---- MODULE Spec2Model ----
(***************************************************************************)
(* A model of the GraphQL resolver map (Query.feed, the three mutations,   *)
(* the NewsItem / Comment flag resolvers and the Date scalar) and of the   *)
(* Show HN feed page that queries it.                                      *)
(*                                                                         *)
(* JavaScript values are tagged records, so that undefined, null, NaN,     *)
(* numbers and strings stay distinct values and the language's coercions   *)
(* (ToBoolean, ToNumber, relational comparison, SameValueZero) are         *)
(* operators that are computed, not assumed.                               *)
(***************************************************************************)
EXTENDS Integers, Sequences, FiniteSets, TLC

VARIABLES
    newsItems,    \* NewsItemService's stored items, newsItems[i].id = i
    comments,     \* CommentService's stored comments
    succeeded,    \* the mutation requests that returned without an error
    created,      \* created[i]: item i as it first existed
    response,     \* the outcome of the request handled last
    handled,      \* the number of requests handled so far
    feedResponse, \* the outcome of the feed request handled last
    scalar        \* the Date scalar conversion made last

vars == <<newsItems, comments, succeeded, created, response, handled,
          feedResponse, scalar>>

(***************************************************************************)
(* Bounds of the model.                                                    *)
(***************************************************************************)
MaxRequests == 3

(***************************************************************************)
(* JavaScript values.                                                      *)
(***************************************************************************)
Undefined == [t |-> "undefined"]
Null == [t |-> "null"]
NaN == [t |-> "NaN"]
Num(n) == [t |-> "number", n |-> n]
Str(s) == [t |-> "string", s |-> s]

Range(s) == {s[i] : i \in 1..Len(s)}

\* ToBoolean: undefined, null, NaN, 0 and "" are falsy, all else is truthy.
ToBoolean(v) ==
    CASE v.t = "undefined" -> FALSE
      [] v.t = "null" -> FALSE
      [] v.t = "NaN" -> FALSE
      [] v.t = "number" -> v.n # 0
      [] v.t = "string" -> IF "s" \in DOMAIN v THEN v.s # "" ELSE v.chars # <<>>
      [] OTHER -> TRUE

\* The ! operator.
Not(v) == ~ToBoolean(v)

\* Array.prototype.includes: a left-to-right scan under SameValueZero, which
\* on these tagged values (NaN equal to itself) is equality of the records.
RECURSIVE includesFrom(_, _, _)
includesFrom(list, v, k) ==
    IF k > Len(list) THEN FALSE
    ELSE IF list[k] = v THEN TRUE
    ELSE includesFrom(list, v, k + 1)

includes(list, v) == includesFrom(list, v, 1)

(***************************************************************************)
(* Request contexts: context.userId is undefined or null when nobody is    *)
(* logged in, and otherwise the user id, a string.                         *)
(***************************************************************************)
Users == {Str("alice"), Str("bob")}
UserIdValues == {Undefined, Null, Str("")} \cup Users
Contexts == [userId : UserIdValues]

NoError == ""

(***************************************************************************)
(* The mutation resolvers.  A resolver's outcome is the error it threw     *)
(* (NoError when it returned) and the NewsItemService calls it made, in    *)
(* order.                                                                  *)
(***************************************************************************)
upvoteNewsItemNullCheck(args, context) ==
    IF context.userId = Null
    THEN [error |-> "Must be logged in to vote.", calls |-> <<>>]
    ELSE [error |-> NoError,
          calls |-> <<[method |-> "upvoteNewsItem", id |-> args.id,
                       userId |-> context.userId]>>]

upvoteNewsItem(args, context) ==
    IF Not(context.userId)
    THEN [error |-> "Must be logged in to vote.", calls |-> <<>>]
    ELSE [error |-> NoError,
          calls |-> <<[method |-> "upvoteNewsItem", id |-> args.id,
                       userId |-> context.userId]>>]

hideNewsItemUnchecked(args, context) ==
    [error |-> NoError,
     calls |-> <<[method |-> "hideNewsItem", id |-> args.id,
                  userId |-> context.userId]>>]

hideNewsItem(args, context) ==
    IF Not(context.userId)
    THEN [error |-> "Must be logged in to hide post.", calls |-> <<>>]
    ELSE [error |-> NoError,
          calls |-> <<[method |-> "hideNewsItem", id |-> args.id,
                       userId |-> context.userId]>>]

submitNewsItemUnchecked(newsItem, context) ==
    [error |-> NoError,
     calls |-> <<[method |-> "submitNewsItem",
                  newsItem |-> [title |-> newsItem.title,
                                submitterId |-> context.userId]]>>]

submitNewsItem(newsItem, context) ==
    IF Not(context.userId)
    THEN [error |-> "Must be logged in to submit a news item.", calls |-> <<>>]
    ELSE [error |-> NoError,
          calls |-> <<[method |-> "submitNewsItem",
                       newsItem |-> [title |-> newsItem.title,
                                     submitterId |-> context.userId]]>>]

(***************************************************************************)
(* The flag resolvers.                                                     *)
(***************************************************************************)
CommentUpvoted(comment, context) == includes(comment.upvotes, context.userId)

NewsItemHidden(newsItem, context) == includes(newsItem.hides, context.userId)

NewsItemUpvotedBySubmitter(newsItem, context) ==
    includes(newsItem.upvotes, newsItem.submitterId)

NewsItemUpvoted(newsItem, context) == includes(newsItem.upvotes, context.userId)

(***************************************************************************)
(* NewsItemService: an upvote or a hide is recorded as membership of the   *)
(* user id in the item's list; a submitted item gets the next id.  Whether *)
(* a new item starts with its submitter's upvote is left open (selfUpvote). *)
(***************************************************************************)
AddMember(list, userId) ==
    IF userId \in Range(list) THEN list ELSE Append(list, userId)

ServiceUpvoteNewsItem(items, id, userId) ==
    IF id \in 1..Len(items)
    THEN [items EXCEPT ![id].upvotes = AddMember(@, userId)]
    ELSE items

ServiceHideNewsItem(items, id, userId) ==
    IF id \in 1..Len(items)
    THEN [items EXCEPT ![id].hides = AddMember(@, userId)]
    ELSE items

ServiceSubmitNewsItem(items, newsItem, selfUpvote) ==
    Append(items, [id |-> Len(items) + 1,
                   title |-> newsItem.title,
                   submitterId |-> newsItem.submitterId,
                   upvotes |-> IF selfUpvote THEN <<newsItem.submitterId>>
                               ELSE <<>>,
                   hides |-> <<>>])

ServiceApply(items, call, selfUpvote) ==
    CASE call.method = "upvoteNewsItem" ->
             ServiceUpvoteNewsItem(items, call.id, call.userId)
      [] call.method = "hideNewsItem" ->
             ServiceHideNewsItem(items, call.id, call.userId)
      [] call.method = "submitNewsItem" ->
             ServiceSubmitNewsItem(items, call.newsItem, selfUpvote)

RECURSIVE ServiceApplyAll(_, _, _)
ServiceApplyAll(items, calls, selfUpvote) ==
    IF calls = <<>> THEN items
    ELSE ServiceApplyAll(ServiceApply(items, Head(calls), selfUpvote),
                         Tail(calls), selfUpvote)

(***************************************************************************)
(* The stored data the server starts with.                                 *)
(***************************************************************************)
Titles == {"Show HN: a model"}

InitialNewsItems ==
    {<<[id |-> 1, title |-> "Show HN: a model", submitterId |-> Str("alice"),
        upvotes |-> up, hides |-> hd]>> :
        up \in {<<>>, <<Str("alice")>>}, hd \in {<<>>, <<Str("bob")>>}}

InitialComments ==
    <<[id |-> 1, parent |-> 1, submitterId |-> Str("bob"),
       upvotes |-> <<Str("alice")>>],
      [id |-> 2, parent |-> 1, submitterId |-> Str("alice"),
       upvotes |-> <<Str("bob"), Str("alice")>>]>>

NoResponse == [op |-> "none"]

Init ==
    /\ newsItems \in InitialNewsItems
    /\ comments = InitialComments
    /\ succeeded = {}
    /\ created = newsItems
    /\ response = NoResponse
    /\ handled = 0
    /\ feedResponse = NoResponse
    /\ scalar = NoResponse

\* Init with one store, for the requests that neither read nor write it.
InitFixedStore ==
    /\ Init
    /\ newsItems[1].upvotes = <<>>
    /\ newsItems[1].hides = <<>>

(***************************************************************************)
(* One mutation request: the resolver runs, and the service calls it made  *)
(* take effect.                                                            *)
(***************************************************************************)
Mutate(op, args, context, result, selfUpvote) ==
    /\ handled' = handled + 1
    /\ newsItems' = ServiceApplyAll(newsItems, result.calls, selfUpvote)
    /\ created' = created \o SubSeq(newsItems', Len(newsItems) + 1,
                                    Len(newsItems'))
    /\ succeeded' = IF result.error = NoError
                    THEN succeeded \cup {[op |-> op, args |-> args,
                                          userId |-> context.userId]}
                    ELSE succeeded
    /\ response' = [op |-> op, args |-> args, userId |-> context.userId,
                    error |-> result.error, calls |-> result.calls]
    /\ UNCHANGED <<comments, feedResponse, scalar>>

MutationUpvoteNewsItem ==
    /\ handled < MaxRequests
    /\ \E context \in Contexts, id \in 1..(Len(newsItems) + 1) :
           Mutate("upvoteNewsItem", [id |-> id], context,
                  upvoteNewsItem([id |-> id], context), FALSE)

MutationHideNewsItem ==
    /\ handled < MaxRequests
    /\ \E context \in Contexts, id \in 1..(Len(newsItems) + 1) :
           Mutate("hideNewsItem", [id |-> id], context,
                  hideNewsItem([id |-> id], context), FALSE)

MutationSubmitNewsItem ==
    /\ handled < MaxRequests
    /\ \E context \in Contexts, title \in Titles, selfUpvote \in BOOLEAN :
           Mutate("submitNewsItem", [title |-> title], context,
                  submitNewsItem([title |-> title], context), selfUpvote)

(***************************************************************************)
(* One query that resolves the flags of a news item or of a comment for    *)
(* the requesting context.                                                 *)
(***************************************************************************)
ResolveNewsItem ==
    \E context \in Contexts, id \in 1..Len(newsItems) :
        /\ handled < MaxRequests
        /\ handled' = handled + 1
        /\ response' = [op |-> "newsItem", args |-> [id |-> id],
                        userId |-> context.userId,
                        upvoted |-> NewsItemUpvoted(newsItems[id], context),
                        hidden |-> NewsItemHidden(newsItems[id], context)]
        /\ UNCHANGED <<newsItems, comments, succeeded, created,
                       feedResponse, scalar>>

ResolveComment ==
    \E context \in Contexts, id \in 1..Len(comments) :
        /\ handled < MaxRequests
        /\ handled' = handled + 1
        /\ response' = [op |-> "comment", args |-> [id |-> id],
                        userId |-> context.userId,
                        upvoted |-> CommentUpvoted(comments[id], context)]
        /\ UNCHANGED <<newsItems, comments, succeeded, created,
                       feedResponse, scalar>>

Next ==
    \/ MutationUpvoteNewsItem
    \/ MutationHideNewsItem
    \/ MutationSubmitNewsItem
    \/ ResolveNewsItem
    \/ ResolveComment

Spec == Init /\ [][Next]_vars

(***************************************************************************)
(* Numbers on the feed path.  GraphQL's Int is a 32-bit integer, held here *)
(* as a TLC integer in Num(n); NaN is the Number that is not one.          *)
(***************************************************************************)
\* A string whose characters matter (a URL parameter): its characters.
Text(chars) == [t |-> "string", chars |-> chars]

DigitChars == <<"0", "1", "2", "3", "4", "5", "6", "7", "8", "9">>

IsDigit(c) == c \in Range(DigitChars)

DigitValue(c) == (CHOOSE i \in 1..10 : DigitChars[i] = c) - 1

RECURSIVE DigitsValue(_, _)
DigitsValue(chars, acc) ==
    IF chars = <<>> THEN acc
    ELSE DigitsValue(Tail(chars), 10 * acc + DigitValue(Head(chars)))

RECURSIVE TrimLeft(_)
TrimLeft(chars) ==
    IF chars # <<>> /\ Head(chars) = " " THEN TrimLeft(Tail(chars)) ELSE chars

RECURSIVE TrimRight(_)
TrimRight(chars) ==
    IF chars # <<>> /\ chars[Len(chars)] = " "
    THEN TrimRight(SubSeq(chars, 1, Len(chars) - 1))
    ELSE chars

\* ToNumber of a string, for the strings the model feeds it: white space is
\* trimmed, the empty string is 0, an optionally signed run of decimal digits
\* is its value, and any other text is NaN.
StringToNumber(chars) ==
    LET trimmed == TrimRight(TrimLeft(chars))
        signed == trimmed # <<>> /\ Head(trimmed) \in {"+", "-"}
        digits == IF signed THEN Tail(trimmed) ELSE trimmed
    IN  IF trimmed = <<>> THEN Num(0)
        ELSE IF digits = <<>> \/ \E i \in 1..Len(digits) : ~IsDigit(digits[i])
        THEN NaN
        ELSE IF Head(trimmed) = "-" THEN Num(0 - DigitsValue(digits, 0))
        ELSE Num(DigitsValue(digits, 0))

\* ToNumber: undefined is NaN, null is 0, a number is itself.
ToNumber(v) ==
    CASE v.t = "undefined" -> NaN
      [] v.t = "null" -> Num(0)
      [] v.t = "NaN" -> NaN
      [] v.t = "number" -> v
      [] v.t = "string" -> StringToNumber(v.chars)

\* a < b and a > b on values that are not both strings: both sides go
\* through ToNumber, and a comparison with NaN is false.
LessThan(a, b) ==
    LET x == ToNumber(a)
        y == ToNumber(b)
    IN  x.t = "number" /\ y.t = "number" /\ x.n < y.n

GreaterThan(a, b) == LessThan(b, a)

\* a * b
Times(a, b) ==
    LET x == ToNumber(a)
        y == ToNumber(b)
    IN  IF x.t = "number" /\ y.t = "number" THEN Num(x.n * y.n) ELSE NaN

(***************************************************************************)
(* The schema: the FeedType enum and the types of feed's arguments.        *)
(***************************************************************************)
FeedType == {"top", "new", "best", "show", "ask", "job"}

MaxInt == 2147483647
MinInt == (0 - MaxInt) - 1

\* A value the schema's Int accepts.
IsInt(v) == v.t = "number" /\ v.n >= MinInt /\ v.n <= MaxInt

\* The errors of coercing the values given for feed(type: FeedType!,
\* first: Int, skip: Int); required tells whether first and skip come from
\* variables declared Int!, as the page's query declares them.
FeedErrors(values, required) ==
    (IF values.type \in FeedType THEN <<>>
     ELSE <<"type: invalid value; expected type FeedType">>)
    \o (IF IsInt(values.first)
           \/ (~required /\ values.first \in {Undefined, Null})
        THEN <<>> ELSE <<"first: invalid value; expected type Int">>)
    \o (IF IsInt(values.skip)
           \/ (~required /\ values.skip \in {Undefined, Null})
        THEN <<>> ELSE <<"skip: invalid value; expected type Int">>)

(***************************************************************************)
(* Query.feed: the FeedSingleton.getForType call it makes.                 *)
(***************************************************************************)
feed(args) ==
    LET first == args.first
        limit == IF LessThan(first, Num(1)) \/ GreaterThan(first, Num(30))
                 THEN Num(30)
                 ELSE first
    IN  [method |-> "getForType", type |-> args.type, limit |-> limit,
         skip |-> args.skip]

\* The execution of one feed query: the resolver runs only when the values
\* given for its arguments are accepted by the schema.
ExecuteFeed(values, required) ==
    LET errors == FeedErrors(values, required)
    IN  [errors |-> errors,
         getForType |-> IF errors = <<>> THEN <<feed(values)>> ELSE <<>>]

(***************************************************************************)
(* The Show HN feed page.                                                  *)
(***************************************************************************)
POSTS_PER_PAGE == 30

\* const pageNumber = (props.url.query && +props.url.query.p) || 0
pageNumber(url) ==
    LET parsed == IF ToBoolean(url.query) THEN ToNumber(url.query.p)
                  ELSE url.query
    IN  IF ToBoolean(parsed) THEN parsed ELSE Num(0)

\* The options ShowNewPage hands to ShowHNNewsFeed.
ShowNewPageOptions(url) ==
    [first |-> Num(POSTS_PER_PAGE),
     skip |-> Times(Num(POSTS_PER_PAGE), pageNumber(url))]

\* The variables ShowHNNewsFeed gives its query.
ShowHNNewsFeedVariables(options) ==
    [type |-> "SHOW", first |-> options.first, skip |-> options.skip]

(***************************************************************************)
(* The feed requests: a page view, and a query sent by any other client.   *)
(***************************************************************************)
FeedMargin == 2

PageParams ==
    {Undefined, Text(<<>>), Text(<<"0">>), Text(<<"1">>), Text(<<"2">>),
     Text(<<"1", "2">>), Text(<<"-", "1">>), Text(<<"+", "3">>),
     Text(<<" ", "4">>), Text(<<"a", "b", "c">>), Text(<<"1", "x">>)}

Urls ==
    {[pathname |-> "/shownew", query |-> Undefined]}
    \cup {[pathname |-> "/shownew", query |-> [t |-> "object", p |-> p]] :
             p \in PageParams}

ClientTypes == FeedType \cup {"SHOW"}
ClientFirsts ==
    {Undefined, Null}
    \cup {Num(n) : n \in (0 - FeedMargin)..(30 + FeedMargin)}
ClientSkips == {Undefined, Num(30)}

ShowNewPage ==
    \E url \in Urls :
        LET variables == ShowHNNewsFeedVariables(ShowNewPageOptions(url))
            result == ExecuteFeed(variables, TRUE)
        IN  /\ feedResponse' = [op |-> "feed", origin |-> "ShowNewPage",
                                url |-> url, variables |-> variables,
                                errors |-> result.errors,
                                getForType |-> result.getForType]
            /\ UNCHANGED <<newsItems, comments, succeeded, created, response,
                           handled, scalar>>

ClientFeedQuery ==
    \E type \in ClientTypes, first \in ClientFirsts, skip \in ClientSkips :
        LET values == [type |-> type, first |-> first, skip |-> skip]
            result == ExecuteFeed(values, FALSE)
        IN  /\ feedResponse' = [op |-> "feed", origin |-> "client",
                                variables |-> values,
                                errors |-> result.errors,
                                getForType |-> result.getForType]
            /\ UNCHANGED <<newsItems, comments, succeeded, created, response,
                           handled, scalar>>

FeedNext ==
    \/ ShowNewPage
    \/ ClientFeedQuery

FeedSpec == InitFixedStore /\ [][FeedNext]_vars

(***************************************************************************)
(* Properties of the feed path, checked under FeedSpec.                    *)
(***************************************************************************)
\* C1: whatever first is (any integer, null, or omitted), the limit of every
\* getForType call Query.feed makes is an integer in 1..30: first itself when
\* 1 <= first <= 30, and 30 in every other case.
C1_LimitClamped ==
    feedResponse.op = "feed" =>
      \A i \in 1..Len(feedResponse.getForType) :
        LET limit == feedResponse.getForType[i].limit
            first == feedResponse.variables.first
        IN  /\ limit.t = "number"
            /\ limit.n \in 1..30
            /\ limit = IF first.t = "number" /\ first.n \in 1..30
                       THEN first ELSE Num(30)

\* C5: a view of page p (0 when the URL has no p or p is not a number) queries
\* the feed with first = 30 and skip = 30 * p, skip is never negative, and
\* Query.feed hands getForType the limit 30 and that same skip.
C5_PageWindow ==
    (feedResponse.op = "feed" /\ feedResponse.origin = "ShowNewPage") =>
      LET p == pageNumber(feedResponse.url)
          skip == feedResponse.variables.skip
      IN  /\ feedResponse.variables.first = Num(30)
          /\ skip = Num(30 * p.n)
          /\ skip.n >= 0
          /\ Len(feedResponse.getForType) = 1
          /\ feedResponse.getForType[1].limit = Num(30)
          /\ feedResponse.getForType[1].skip = skip

\* C6: the type variable of every feed query a page issues is a value of the
\* FeedType enum, so the schema accepts the query and it reaches getForType
\* as the show feed.
C6_PageTypeIsFeedType ==
    (feedResponse.op = "feed" /\ feedResponse.origin = "ShowNewPage") =>
      /\ feedResponse.variables.type \in FeedType
      /\ feedResponse.errors = <<>>
      /\ Len(feedResponse.getForType) = 1
      /\ feedResponse.getForType[1].type = "show"

(***************************************************************************)
(* Numbers on the Date path.  Time values reach 8.64 * 10^15 and integer   *)
(* literals reach beyond 2^53, which is past the integers TLC computes     *)
(* with, so an integer-valued Number is held as a sign and a magnitude of  *)
(* two limbs, hi * 10^8 + lo.                                              *)
(***************************************************************************)
Limb == 10 ^ 8

Wide(neg, hi, lo) == [t |-> "number", neg |-> neg, hi |-> hi, lo |-> lo]

MagnitudeLE(a, b) == a.hi < b.hi \/ (a.hi = b.hi /\ a.lo <= b.lo)

\* The largest time value of a Date, 8.64 * 10^15 ms, as limbs.
MaxTimeHi == 86400000
MaxTime == Wide(FALSE, MaxTimeHi, 0)

\* 2^53 = 9007199254740992: up to it every integer is a Number.
TwoTo53Hi == 90071992
TwoTo53Lo == 54740992
TwoTo53 == Wide(FALSE, TwoTo53Hi, TwoTo53Lo)

\* The Number nearest to an integer of magnitude below 2^54: the integer
\* itself up to 2^53, and beyond it the nearest even integer, a tie going to
\* the multiple of 4 (round half to even).
ToDouble(w) ==
    IF MagnitudeLE(w, TwoTo53) \/ w.lo % 2 = 0 THEN w
    ELSE IF w.lo % 4 = 1 THEN [w EXCEPT !.lo = @ - 1]
    ELSE IF w.lo + 1 = Limb THEN [w EXCEPT !.hi = @ + 1, !.lo = 0]
    ELSE [w EXCEPT !.lo = @ + 1]

\* TimeClip: NaN stays NaN and a time value beyond 8.64 * 10^15 ms in
\* magnitude becomes NaN.
TimeClip(v) ==
    IF v.t = "NaN" THEN NaN
    ELSE IF MagnitudeLE(v, MaxTime) THEN v
    ELSE NaN

IsDate(v) == v.t = "object" /\ v.class = "Date"

\* new Date(value) for a Number or a Date.
NewDate(value) ==
    [t |-> "object", class |-> "Date",
     time |-> IF IsDate(value) THEN value.time ELSE TimeClip(value)]

\* Date.prototype.valueOf
valueOf(date) == date.time

\* parseInt(string, radix) for 2 <= radix <= 10: white space and a sign are
\* skipped, the longest run of digits of the radix is read, and the result is
\* the Number nearest to its value, or NaN when there is no digit.
RECURSIVE RadixPrefix(_, _)
RadixPrefix(chars, radix) ==
    IF chars # <<>> /\ IsDigit(Head(chars)) /\ DigitValue(Head(chars)) < radix
    THEN <<Head(chars)>> \o RadixPrefix(Tail(chars), radix)
    ELSE <<>>

RECURSIVE RadixValue(_, _, _)
RadixValue(chars, radix, acc) ==
    IF chars = <<>> THEN acc
    ELSE LET low == acc.lo * radix + DigitValue(Head(chars))
         IN  RadixValue(Tail(chars), radix,
                        [acc EXCEPT !.hi = @ * radix + low \div Limb,
                                    !.lo = low % Limb])

parseInt(chars, radix) ==
    LET trimmed == TrimLeft(chars)
        signed == trimmed # <<>> /\ Head(trimmed) \in {"+", "-"}
        digits == RadixPrefix(IF signed THEN Tail(trimmed) ELSE trimmed,
                              radix)
        neg == signed /\ Head(trimmed) = "-"
    IN  IF digits = <<>> THEN NaN
        ELSE ToDouble(RadixValue(digits, radix, Wide(neg, 0, 0)))

(***************************************************************************)
(* The Date scalar.                                                        *)
(***************************************************************************)
parseValue(value) == valueOf(NewDate(value))

serializeAsIs(value) == value

serialize(value) == IF IsDate(value) THEN valueOf(value) ELSE value

parseLiteral(ast) ==
    IF ast.kind = "IntValue" THEN parseInt(ast.value, 10) ELSE Null

(***************************************************************************)
(* The values the Date scalar is given: integers around 0, around today,   *)
(* around the largest time value and around 2^53, of both signs; the Dates *)
(* made from them; and literals of every kind.                             *)
(***************************************************************************)
Magnitudes ==
    {<<0, 0>>, <<0, 1>>, <<0, 86400000>>, <<17623, 40800000>>,
     <<MaxTimeHi - 1, Limb - 1>>, <<MaxTimeHi, 0>>, <<MaxTimeHi, 1>>,
     <<TwoTo53Hi, TwoTo53Lo - 1>>, <<TwoTo53Hi, TwoTo53Lo>>,
     <<TwoTo53Hi, TwoTo53Lo + 1>>, <<TwoTo53Hi, TwoTo53Lo + 2>>,
     <<TwoTo53Hi, TwoTo53Lo + 3>>, <<TwoTo53Hi + 1, Limb - 1>>}

IntegerSamples ==
    {Wide(neg, m[1], m[2]) : neg \in BOOLEAN, m \in Magnitudes}
    \ {Wide(TRUE, 0, 0)}

Dates == {NewDate(n) : n \in IntegerSamples \cup {NaN}}

RECURSIVE Decimal(_)
Decimal(n) ==
    IF n < 10 THEN <<DigitChars[n + 1]>>
    ELSE Decimal(n \div 10) \o <<DigitChars[(n % 10) + 1]>>

RECURSIVE ZeroPad(_, _)
ZeroPad(chars, width) ==
    IF Len(chars) >= width THEN chars ELSE ZeroPad(<<"0">> \o chars, width)

\* The text of the INT literal that denotes an integer.
IntLiteral(w) ==
    (IF w.neg THEN <<"-">> ELSE <<>>)
    \o (IF w.hi = 0 THEN Decimal(w.lo)
        ELSE Decimal(w.hi) \o ZeroPad(Decimal(w.lo), 8))

OtherLiterals ==
    {[kind |-> "FloatValue", value |-> <<"1", ".", "5">>],
     [kind |-> "StringValue", value |-> <<"2", "0", "1", "7">>],
     [kind |-> "BooleanValue", value |-> <<"1">>],
     [kind |-> "EnumValue", value |-> <<"1", "2">>],
     [kind |-> "NullValue", value |-> <<>>]}

ScalarResult(op, input, output) ==
    [op |-> op, input |-> input, output |-> output]

ScalarParseValue ==
    \E value \in IntegerSamples \cup {NaN} \cup Dates :
        /\ scalar' = ScalarResult("parseValue", value, parseValue(value))
        /\ UNCHANGED <<newsItems, comments, succeeded, created, response,
                       handled, feedResponse>>

ScalarSerialize ==
    \E value \in IntegerSamples \cup {NaN} \cup Dates :
        /\ scalar' = ScalarResult("serialize", value, serialize(value))
        /\ UNCHANGED <<newsItems, comments, succeeded, created, response,
                       handled, feedResponse>>

ScalarParseIntLiteral ==
    \E n \in IntegerSamples :
        LET ast == [kind |-> "IntValue", value |-> IntLiteral(n)]
        IN  /\ scalar' = [op |-> "parseLiteral", input |-> ast,
                          denotes |-> n, output |-> parseLiteral(ast)]
            /\ UNCHANGED <<newsItems, comments, succeeded, created, response,
                           handled, feedResponse>>

ScalarParseOtherLiteral ==
    \E ast \in OtherLiterals :
        /\ scalar' = ScalarResult("parseLiteral", ast, parseLiteral(ast))
        /\ UNCHANGED <<newsItems, comments, succeeded, created, response,
                       handled, feedResponse>>

\* A value sent out and read back, and a value read and sent out again.
ScalarSerializeThenParse ==
    \E n \in IntegerSamples :
        /\ scalar' = ScalarResult("serializeThenParse", n, parseValue(serialize(n)))
        /\ UNCHANGED <<newsItems, comments, succeeded, created, response,
                       handled, feedResponse>>

ScalarParseThenSerialize ==
    \E n \in IntegerSamples :
        /\ scalar' = ScalarResult("parseThenSerialize", n, serialize(parseValue(n)))
        /\ UNCHANGED <<newsItems, comments, succeeded, created, response,
                       handled, feedResponse>>

DateNext ==
    \/ ScalarParseValue
    \/ ScalarSerialize
    \/ ScalarParseIntLiteral
    \/ ScalarParseOtherLiteral
    \/ ScalarSerializeThenParse
    \/ ScalarParseThenSerialize

DateSpec == InitFixedStore /\ [][DateNext]_vars

(***************************************************************************)
(* Properties of the Date scalar, checked under DateSpec.                  *)
(***************************************************************************)
RoundTrips == {"serializeThenParse", "parseThenSerialize"}

SerializeIsValueOf ==
    scalar.op = "serialize" =>
      scalar.output = IF IsDate(scalar.input) THEN scalar.input.time
                      ELSE scalar.input

\* C7 as stated: serialize returns d.valueOf() for a Date d and a number
\* unchanged; for every integer n, parseValue(serialize(n)) = n and
\* serialize(parseValue(n)) = n; parseLiteral returns the value of an INT
\* literal and null for a literal of any other kind.
C7_DateRoundTrips ==
    /\ SerializeIsValueOf
    /\ scalar.op \in RoundTrips => scalar.output = scalar.input
    /\ scalar.op = "parseLiteral" =>
         scalar.output = IF scalar.input.kind = "IntValue"
                         THEN scalar.denotes ELSE Null

\* C7 as amended: serialize returns d.valueOf() for a Date d and a number
\* unchanged; for every integer n with |n| <= 8.64 * 10^15,
\* parseValue(serialize(n)) = n and serialize(parseValue(n)) = n, and for a
\* larger |n| both are NaN; parseLiteral returns the value of an INT literal
\* of magnitude at most 2^53 and null for a literal of any other kind.
C7_DateRoundTripsInRange ==
    /\ SerializeIsValueOf
    /\ scalar.op \in RoundTrips =>
         scalar.output = IF MagnitudeLE(scalar.input, MaxTime)
                         THEN scalar.input ELSE NaN
    /\ (scalar.op = "parseLiteral" /\ scalar.input.kind = "IntValue"
        /\ MagnitudeLE(scalar.denotes, TwoTo53)) =>
         scalar.output = scalar.denotes
    /\ (scalar.op = "parseLiteral" /\ scalar.input.kind # "IntValue") =>
         scalar.output = Null

C7_Witness ==
    /\ scalar.op = "parseThenSerialize"
    /\ scalar.input = Wide(TRUE, MaxTimeHi, 0)
    /\ scalar.output = scalar.input

(***************************************************************************)
(* Properties of the mutation and flag resolvers, checked under Spec.      *)
(***************************************************************************)
Mutations == {"upvoteNewsItem", "hideNewsItem", "submitNewsItem"}

NotLoggedIn == {Undefined, Null}

MustBeLoggedIn(op) ==
    CASE op = "upvoteNewsItem" -> "Must be logged in to vote."
      [] op = "hideNewsItem" -> "Must be logged in to hide post."
      [] op = "submitNewsItem" -> "Must be logged in to submit a news item."

CallUserId(call) ==
    IF call.method = "submitNewsItem" THEN call.newsItem.submitterId
    ELSE call.userId

\* C2: every step that handles a mutation for a context with no logged-in
\* user ends with that mutation's 'Must be logged in ...' error, has made no
\* NewsItemService call, and leaves the stored items (their upvotes and
\* hides), the comments and the record of successful mutations as they were.
C2_UnauthenticatedMutationFails ==
    [][(response'.op \in Mutations /\ response'.userId \in NotLoggedIn)
        => /\ response'.error = MustBeLoggedIn(response'.op)
           /\ response'.calls = <<>>
           /\ newsItems' = newsItems
           /\ comments' = comments
           /\ succeeded' = succeeded]_vars

C2_Witness ==
    /\ handled = MaxRequests
    /\ response.op = "submitNewsItem"
    /\ response.userId = Undefined
    /\ response.error = "Must be logged in to submit a news item."
    /\ succeeded # {}

\* C3: the flags a query returns for a news item are exactly the membership
\* of the requesting context's userId in the item's upvotes and hides lists,
\* and the flag it returns for a comment is exactly the membership of that
\* userId in the comment's upvotes list.
C3_FlagsAreMembership ==
    /\ response.op = "newsItem" =>
         /\ response.upvoted =
              (response.userId \in Range(newsItems[response.args.id].upvotes))
         /\ response.hidden =
              (response.userId \in Range(newsItems[response.args.id].hides))
    /\ response.op = "comment" =>
         response.upvoted =
           (response.userId \in Range(comments[response.args.id].upvotes))

C3_Witness ==
    /\ response.op = "newsItem"
    /\ response.userId = Str("bob")
    /\ response.upvoted
    /\ ~response.hidden
    /\ newsItems[response.args.id].submitterId # Str("bob")

\* C4 as stated: a mutation is rejected if and only if context.userId is
\* null (or absent), and every other userId is forwarded exactly once to the
\* NewsItemService method of the same name with that userId.
C4_RejectedIffNull ==
    response.op \in Mutations =>
      /\ (response.error # NoError) <=> (response.userId \in NotLoggedIn)
      /\ response.userId \notin NotLoggedIn =>
           /\ Len(response.calls) = 1
           /\ response.calls[1].method = response.op
           /\ CallUserId(response.calls[1]) = response.userId

\* C4 as amended: a mutation is rejected if and only if context.userId is
\* falsy (undefined, null or the empty string), a rejected mutation makes no
\* service call, and every other userId is forwarded exactly once to the
\* NewsItemService method of the same name with that userId.
FalsyUserIds == {Undefined, Null, Str("")}

C4_RejectedIffFalsy ==
    response.op \in Mutations =>
      /\ (response.error # NoError) <=> (response.userId \in FalsyUserIds)
      /\ response.userId \in FalsyUserIds => response.calls = <<>>
      /\ response.userId \notin FalsyUserIds =>
           /\ Len(response.calls) = 1
           /\ response.calls[1].method = response.op
           /\ CallUserId(response.calls[1]) = response.userId

C4_Witness ==
    /\ response.op = "upvoteNewsItem"
    /\ response.userId = Str("")
    /\ response.error = "Must be logged in to vote."
    /\ \E r \in succeeded : r.op = "upvoteNewsItem" /\ r.userId = Str("bob")

\* C8: the upvotes and hides lists of every stored item hold only real user
\* ids; a request with no logged-in user is answered upvoted = false and
\* hidden = false; and a context is answered upvoted (hidden) = true for an
\* item only if its userId was in the item's list when the item first existed
\* or a upvoteNewsItem (hideNewsItem) mutation by that userId on that item
\* succeeded.
C8_ListsHoldRealUserIds ==
    /\ \A i \in 1..Len(newsItems) :
         /\ Range(newsItems[i].upvotes) \subseteq Users
         /\ Range(newsItems[i].hides) \subseteq Users
    /\ (response.op = "newsItem" /\ response.userId \in NotLoggedIn) =>
         (~response.upvoted /\ ~response.hidden)
    /\ (response.op = "newsItem" /\ response.upvoted) =>
         \/ response.userId \in Range(created[response.args.id].upvotes)
         \/ [op |-> "upvoteNewsItem", args |-> response.args,
             userId |-> response.userId] \in succeeded
    /\ (response.op = "newsItem" /\ response.hidden) =>
         \/ response.userId \in Range(created[response.args.id].hides)
         \/ [op |-> "hideNewsItem", args |-> response.args,
             userId |-> response.userId] \in succeeded

C8_Witness ==
    /\ response.op = "newsItem"
    /\ response.userId = Str("alice")
    /\ response.hidden
    /\ Str("alice") \notin Range(created[response.args.id].hides)
    /\ \E r \in succeeded : r.op = "hideNewsItem"

====
